---- MODULE Spec2Model ----
(***************************************************************************)
(* A model of the resume backend: src/server.js (the Express application)  *)
(* and src/unnamed/part_000 (utils/jobFetcher.js).                         *)
(*                                                                         *)
(* One request (or one call of fetchJobs) is followed from its arrival to  *)
(* its response.  Handlers share no state but the upload directory, so a   *)
(* single request shows everything a handler can do.  Each action is the   *)
(* synchronous run of the code between two awaits; what a third-party      *)
(* library or the network answers is drawn with \E from a bounded set.     *)
(*                                                                         *)
(* Assumptions on the environment: a third-party failure is an Error with  *)
(* a string message; numbers are integers (no fractions, no Infinity).     *)
(***************************************************************************)
EXTENDS Integers, Sequences, FiniteSets, TLC

VARIABLES
    req,     \* the request: route, upload or body (for fetchJobs: the arguments)
    pc,      \* where the request is: the await the handler is suspended at
    locals,  \* the handler's local variables that are live at that await
    res,     \* the HTTP response (for fetchJobs: the promise's settlement)
    files,   \* the paths that exist in the upload directory
    calls    \* history: the third-party, network and fs calls made, in order

vars == <<req, pc, locals, res, files, calls>>

(***************************************************************************)
(* Bounds of the model.                                                    *)
(***************************************************************************)
\* Texts carry up to MaxPad blanks before and up to MaxPad after their body.
MaxPad == 1
\* Body lengths range over 0 and MinLen-MaxSlack .. MinLen+MaxSlack.
MaxSlack == 1
\* A name (resumeData.name, fileName) has at most MaxName characters.
MaxName == 2
\* An LLM reply holds at most MaxItems array elements in all its arrays together.
MaxItems == 1
\* The job API answers with at most JobsCap + MaxExtraJobs jobs.
MaxExtraJobs == 1

(***************************************************************************)
(* JavaScript values, as tagged records.                                   *)
(***************************************************************************)
Undef == [t |-> "undef"]
Null == [t |-> "null"]
NaN == [t |-> "nan"]
Num(n) == [t |-> "num", n |-> n]
Str(s) == [t |-> "str", s |-> s]
Arr(a) == [t |-> "arr", a |-> a]
Obj(o) == [t |-> "obj", o |-> o]

IsNullish(v) == v.t \in {"undef", "null"}
IsArray(v) == v.t = "arr"

\* v.k for a value that is not null or undefined (reading those throws a TypeError)
Prop(v, k) == IF v.t = "obj" /\ k \in DOMAIN v.o THEN v.o[k] ELSE Undef

\* ToBoolean
Truthy(v) ==
    CASE v.t \in {"undef", "null", "nan"} -> FALSE
      [] v.t = "num" -> v.n # 0
      [] v.t = "str" -> v.s # ""
      [] OTHER -> TRUE

\* a || b
JsOr(a, b) == IF Truthy(a) THEN a ELSE b

\* The integers a numeric string of the model can spell.
Spellable == -2 .. 102

\* Number(s) of a string: "" is 0, a decimal numeral is its value, else NaN
StrToNumber(s) ==
    IF s = "" THEN Num(0)
    ELSE IF \E n \in Spellable : ToString(n) = s
         THEN Num(CHOOSE n \in Spellable : ToString(n) = s)
         ELSE NaN

\* Number(v)
ToNumber(v) ==
    CASE v.t = "num" -> v
      [] v.t = "null" -> Num(0)
      [] v.t = "str" -> StrToNumber(v.s)
      [] v.t = "arr" -> IF v.a = <<>> THEN Num(0)
                        ELSE IF Len(v.a) = 1 /\ v.a[1].t = "num" THEN v.a[1]
                        ELSE IF Len(v.a) = 1 /\ v.a[1].t = "str" THEN StrToNumber(v.a[1].s)
                        ELSE NaN
      [] OTHER -> NaN

\* String(v), for the values of the model (an array holds scalars here)
ToStr(v) ==
    CASE v.t = "str" -> v.s
      [] v.t = "num" -> ToString(v.n)
      [] v.t = "undef" -> "undefined"
      [] v.t = "null" -> "null"
      [] v.t = "nan" -> "NaN"
      [] v.t = "arr" -> IF v.a = <<>> THEN ""
                        ELSE IF v.a[1].t = "str" THEN v.a[1].s
                        ELSE IF v.a[1].t = "num" THEN ToString(v.a[1].n)
                        ELSE ""
      [] OTHER -> "[object Object]"

Max(a, b) == IF a >= b THEN a ELSE b
Min(a, b) == IF a <= b THEN a ELSE b

(***************************************************************************)
(* Texts: lead blanks, a body that starts and ends with a non-blank, trail *)
(* blanks.  trim() drops the blanks, so trim().length is the body length.  *)
(***************************************************************************)
Text(l, b, r) == [t |-> "text", lead |-> l, body |-> b, trail |-> r]
TextLen(x) == x.lead + x.body + x.trail
TrimLen(x) == x.body
\* a string is truthy when it is not empty; undefined is not
TextTruthy(x) == x.t = "text" /\ TextLen(x) > 0

(***************************************************************************)
(* Error messages.  has is the set of the words the handler's catch looks  *)
(* for with includes() that occur in the message.                          *)
(***************************************************************************)
Markers == {"timeout", "JSON", "parse", "short", "extract"}
Msg(s, h) == [parts |-> <<s>>, has |-> h]
\* `${a}${b}`
Concat(a, b) == [parts |-> a.parts \o b.parts, has |-> a.has \cup b.has]
Includes(m, w) == w \in m.has

\* What a failing library, file system or peer may say.
UpstreamErrors ==
    { Msg("ECONNRESET", {}),
      Msg("network timeout at: https://api.groq.com", {"timeout"}),
      Msg("could not extract stream", {"extract"}),
      Msg("Unexpected token < in JSON at position 0", {"JSON"}) }

(***************************************************************************)
(* Requests, responses and the call history.                               *)
(***************************************************************************)
NoResponse == [sent |-> 0, status |-> 0, headers |-> {}, body |-> [kind |-> "none"]]

\* res.status(s).json(b): status defaults to 200
Json(s, b) == [sent |-> 1, status |-> s, headers |-> {"Content-Type: application/json"},
               body |-> b]
ErrorBody(m) == [kind |-> "error", success |-> FALSE, error |-> m.parts]

Invoked(fn) == [ev |-> "call", fn |-> fn, ok |-> TRUE, trimLen |-> 0]
Settled(fn, ok, n) == [ev |-> "settle", fn |-> fn, ok |-> ok, trimLen |-> n]

\* fileFilter's allowedTypes
PdfType == "application/pdf"
DocxType == "application/vnd.openxmlformats-officedocument.wordprocessingml.document"
TxtType == "text/plain"
AllowedTypes == {PdfType, DocxType, TxtType}

\* the name multer's filename callback gives the stored file
UploadPath == "uploads/1700000000000-resume"

(***************************************************************************)
(* Text extraction: what it is asked to accept.                            *)
(***************************************************************************)
\* processPdf: text.trim().length > 50
PdfMinLen == 50
\* the feedback handler: resumeText.trim().length < 50 is refused
ResumeMinLen == 50

Bodies == {0} \cup ((PdfMinLen - MaxSlack) .. (PdfMinLen + MaxSlack))
Texts == { Text(l, b, r) : <<l, b, r>> \in
             { x \in (0 .. MaxPad) \X Bodies \X (0 .. MaxPad) : x[2] = 0 => x[3] = 0 } }

\* What an extractor (or a file read) may answer: an error, or a text, or
\* an answer without text.
ExtractOutcomes ==
    { [ok |-> FALSE, err |-> e, text |-> Undef] : e \in UpstreamErrors }
    \cup { [ok |-> TRUE, err |-> Msg("", {}), text |-> x] : x \in Texts \cup {Undef} }

\* the trimmed length an answer shows (0 when it carries no text)
ShownLen(o) == IF o.ok /\ o.text.t = "text" THEN TrimLen(o.text) ELSE 0

\* Usable with the threshold one too high
UsableAbove51(x) == TextTruthy(x) /\ TrimLen(x) > PdfMinLen + 1

\* Usable with >= for >
UsableFrom50(x) == TextTruthy(x) /\ TrimLen(x) >= PdfMinLen

\* text && text.trim().length > 50
Usable(x) == TextTruthy(x) /\ TrimLen(x) > PdfMinLen

\* TooShort without the length test
TooShortOnlyEmpty(x) == ~TextTruthy(x)

\* !resumeText || resumeText.trim().length < 50
TooShort(x) == ~TextTruthy(x) \/ TrimLen(x) < ResumeMinLen

(***************************************************************************)
(* Sanitization of the LLM's parsed reply (POST /api/resume/feedback).     *)
(***************************************************************************)
MapSeq(F(_), a) == [i \in 1 .. Len(a) |-> F(a[i])]

\* ClampScore without Math.min
ClampScoreNoMin(v, dflt, hi) == Max(JsOr(ToNumber(v), Num(dflt)).n, 0)

\* Math.min(Math.max(Number(v) || dflt, 0), hi)
ClampScore(v, dflt, hi) == Min(Max(JsOr(ToNumber(v), Num(dflt)).n, 0), hi)

\* Math.max(Number(kw.count) || 0, 0)
ClampCount(v) == Max(JsOr(ToNumber(v), Num(0)).n, 0)

\* the callback of result.categories.map
SanitizeCategory(cat) ==
    [ name |-> ToStr(JsOr(Prop(cat, "name"), Str("Uncategorized"))),
      score |-> ClampScore(Prop(cat, "score"), 5, 10),
      feedback |-> ToStr(JsOr(Prop(cat, "feedback"), Str("No specific feedback provided"))) ]

Importances == {"high", "medium", "low"}

\* the callback of result.keywordAnalysis.map
SanitizeKeyword(kw) ==
    [ keyword |-> ToStr(JsOr(Prop(kw, "keyword"), Str(""))),
      count |-> ClampCount(Prop(kw, "count")),
      importance |-> IF Prop(kw, "importance").t = "str"
                        /\ Prop(kw, "importance").s \in Importances
                     THEN Prop(kw, "importance").s ELSE "medium",
      recommendation |-> ToStr(JsOr(Prop(kw, "recommendation"),
                                    Str("Consider adding this keyword"))) ]

HasKeyword(k) == k.keyword # ""
NonEmpty(x) == x # ""

\* result.strengths.map(s => String(s)).filter(s => s.length > 0), or the default
StringList(v, dflt) ==
    IF IsArray(v) THEN SelectSeq(MapSeq(ToStr, v.a), NonEmpty) ELSE dflt

\* OrIfEmpty without the substitution
KeepEmpty(list, dflt) == list

OrIfEmpty(list, dflt) == IF Len(list) = 0 THEN dflt ELSE list

GeneralAssessment ==
    << [ name |-> "General Assessment", score |-> 5,
         feedback |-> "Comprehensive analysis could not be generated. Please try again." ] >>
StrengthsNoArray == << "Strong foundational content", "Good structure" >>
SuggestionsNoArray == << "Add more quantifiable achievements",
                         "Include relevant keywords for your industry" >>
StrengthsIfEmpty == << "Clear section organization", "Relevant experience included",
                       "Professional presentation" >>
SuggestionsIfEmpty ==
    << "Use more action verbs (e.g., 'managed', 'developed', 'implemented')",
       "Quantify achievements with numbers and metrics",
       "Include relevant industry keywords",
       "Keep resume to 1-2 pages maximum",
       "Use consistent formatting throughout" >>

\* Building responseData reads a property of result and of every element of
\* the two object arrays: reading a property of null or undefined throws.
SanitizeThrows(result) ==
    \/ IsNullish(result)
    \/ /\ IsArray(Prop(result, "categories"))
       /\ \E i \in 1 .. Len(Prop(result, "categories").a) :
             IsNullish(Prop(result, "categories").a[i])
    \/ /\ IsArray(Prop(result, "keywordAnalysis"))
       /\ \E i \in 1 .. Len(Prop(result, "keywordAnalysis").a) :
             IsNullish(Prop(result, "keywordAnalysis").a[i])

TypeErrorMsg == Msg("Cannot read properties of null", {})

\* responseData, with the two "at least some data" substitutions applied
ResponseData(result) ==
    [ overallScore |-> ClampScore(Prop(result, "overallScore"), 50, 100),
      categories |-> IF IsArray(Prop(result, "categories"))
                     THEN MapSeq(SanitizeCategory, Prop(result, "categories").a)
                     ELSE GeneralAssessment,
      strengths |-> OrIfEmpty(StringList(Prop(result, "strengths"), StrengthsNoArray),
                              StrengthsIfEmpty),
      suggestions |-> OrIfEmpty(StringList(Prop(result, "suggestions"), SuggestionsNoArray),
                                SuggestionsIfEmpty),
      jobTitleMatch |-> ToStr(JsOr(Prop(result, "jobTitleMatch"), Str("Professional"))),
      keywordAnalysis |-> IF IsArray(Prop(result, "keywordAnalysis"))
                          THEN SelectSeq(MapSeq(SanitizeKeyword,
                                                Prop(result, "keywordAnalysis").a),
                                         HasKeyword)
                          ELSE <<>>,
      atsScore |-> ClampScore(Prop(result, "atsScore"), 60, 100) ]

SuccessBody(data, text) ==
    [ kind |-> "feedback", success |-> TRUE, data |-> data,
      metadata |-> [processedLength |-> TextLen(text), model |-> "llama3-70b-8192"] ]

\* the catch of the feedback handler: the status follows words of the message
FeedbackCatch(m) ==
    IF Includes(m, "timeout")
    THEN Json(504, ErrorBody(Msg("Analysis timeout. Please try again with a shorter resume or check your internet connection.", {})))
    ELSE IF Includes(m, "JSON") \/ Includes(m, "parse")
    THEN Json(500, ErrorBody(Msg("Failed to process analysis results. Please try again.", {})))
    ELSE IF Includes(m, "short") \/ Includes(m, "extract")
    THEN Json(400, ErrorBody(Msg("Could not extract sufficient text from the resume. Please ensure the file is readable and try again.", {})))
    ELSE Json(500, ErrorBody(Concat(Msg("Failed to analyze resume: ", {}), m)))

(***************************************************************************)
(* callGroq: one fetch, whose outcome the network and the LLM decide.      *)
(***************************************************************************)
GroqOutcome(k, st, e, p, v) ==
    [kind |-> k, status |-> st, err |-> e, parses |-> p, value |-> v]
NoErr == Msg("", {})

\* fetch rejects; the status is not 2xx; the body is not JSON; the body has
\* no choices[0].message.content
GroqFailures ==
    { GroqOutcome("reject", 0, e, FALSE, Undef) : e \in UpstreamErrors }
    \cup { GroqOutcome("status", st, e, FALSE, Undef) :
             st \in {429, 500}, e \in UpstreamErrors }
    \cup { GroqOutcome("badBody", 200, Msg("invalid json response body", {"JSON"}),
                       FALSE, Undef),
           GroqOutcome("noContent", 200, NoErr, FALSE, Undef) }

\* a reply with content: the content parses as JSON to value, or does not parse
Parsed(v) == GroqOutcome("content", 200, NoErr, TRUE, v)
Unparsable == GroqOutcome("content", 200, NoErr, FALSE, Undef)

CallGroqThrows(o) == o.kind # "content"

\* the Error callGroq throws: its catch wraps whatever was thrown inside
CallGroqError(o) ==
    Concat(Msg("Failed to call Groq API: ", {}),
           CASE o.kind = "status" ->
                  Concat(Msg("Groq API error ", {}),
                         Concat(Msg(ToString(o.status), {}), Concat(Msg(": ", {}), o.err)))
             [] o.kind = "noContent" -> Msg("Invalid response structure from Groq API", {})
             [] OTHER -> o.err)

(***************************************************************************)
(* POST /api/resume/feedback: upload.single, validateFile, the handler.    *)
(***************************************************************************)
FeedbackRoute == "POST /api/resume/feedback"
NoFile == [present |-> FALSE, path |-> "", mimetype |-> ""]
\* filePath, resumeText, groqResponse, and the error the catch block received
NoLocals == [filePath |-> "", resumeText |-> Undef,
             reply |-> GroqOutcome("none", 0, NoErr, FALSE, Undef), error |-> NoErr]

\* the error-handling middleware at the end of the stack
ErrorMiddleware(m) ==
    Json(500, [kind |-> "error", success |-> FALSE, error |-> <<"Internal server error">>,
               message |-> m.parts])

\* Finish with the unlink at the end of the try block instead of in finally
FinishUnlinkInTry(response, lv, cs) ==
    /\ res' = response
    /\ locals' = lv
    /\ pc' = "done"
    /\ IF response.status = 200 /\ lv.filePath # "" /\ lv.filePath \in files
       THEN \E ok \in BOOLEAN :
              /\ calls' = Append(cs, Settled("unlinkSync", ok, 0))
              /\ files' = IF ok THEN files \ {lv.filePath} ELSE files
       ELSE calls' = cs /\ files' = files

\* The handler's exit: the response that was decided, then the finally block,
\* which unlinks the upload if it exists; unlinkSync may fail (it is caught).
Finish(response, lv, cs) ==
    /\ res' = response
    /\ locals' = lv
    /\ pc' = "done"
    /\ IF lv.filePath # "" /\ lv.filePath \in files
       THEN \E ok \in BOOLEAN :
              /\ calls' = Append(cs, Settled("unlinkSync", ok, 0))
              /\ files' = IF ok THEN files \ {lv.filePath} ELSE files
       ELSE calls' = cs /\ files' = files

\* an exception reaching the handler's catch
Throw(m, lv, cs) == Finish(FeedbackCatch(m), [lv EXCEPT !.error = m], cs)

TooShortMsg ==
    Msg("Resume text is too short or could not be extracted properly", {"short", "extract"})
NoMethodMsg == Msg("PDF could not be processed by any method", {})

\* The handler once resumeText is known: the length check, the prompt, and
\* callGroq up to its fetch.
GotText(text, lv, cs) ==
    IF TooShort(text)
    THEN Throw(TooShortMsg, lv, cs)
    ELSE /\ pc' = "awaitGroq"
         /\ locals' = [lv EXCEPT !.resumeText = text]
         /\ calls' = Append(cs, Invoked("fetch"))
         /\ UNCHANGED <<res, files>>

\* The handler from its first line to its first await.  reads is what
\* readFileSync may do.
HandlerEnter(cs, reads) ==
    LET lv == [locals EXCEPT !.filePath = req.file.path] IN
    CASE req.file.mimetype = PdfType ->
           \* processPdf: readFileSync, then pdfParse(dataBuffer)
           \E o \in reads :
              IF o.ok
              THEN /\ pc' = "awaitPdfParse"
                   /\ locals' = lv
                   /\ calls' = Append(cs, Invoked("pdfParse"))
                   /\ UNCHANGED <<res, files>>
              ELSE Throw(o.err, lv, cs)
      [] req.file.mimetype = DocxType ->
           /\ pc' = "awaitDocx"
           /\ locals' = lv
           /\ calls' = Append(cs, Invoked("parseDocx"))
           /\ UNCHANGED <<res, files>>
      [] req.file.mimetype = TxtType ->
           \* processTextFile is synchronous
           \E o \in reads :
              IF o.ok
              THEN GotText(o.text, lv, cs)
              ELSE Throw(Concat(Msg("Text file processing failed: ", {}), o.err), lv, cs)
      [] OTHER -> Throw(Msg("Unsupported file type", {}), lv, cs)

\* multer: fileFilter, then diskStorage writes the file
Upload ==
    /\ pc = "received"
    /\ req.route = FeedbackRoute
    /\ IF ~req.upload.present
       THEN /\ pc' = "uploaded"
            /\ UNCHANGED <<req, res, files>>
       ELSE IF req.upload.mimetype \notin AllowedTypes
       THEN /\ pc' = "done"
            /\ res' = ErrorMiddleware(Msg("Invalid file type. Only PDF, DOCX, and TXT files are allowed.", {}))
            /\ UNCHANGED <<req, files>>
       ELSE /\ pc' = "uploaded"
            /\ req' = [req EXCEPT !.file = [present |-> TRUE, path |-> UploadPath,
                                            mimetype |-> req.upload.mimetype]]
            /\ files' = files \cup {UploadPath}
            /\ UNCHANGED res
    /\ UNCHANGED <<locals, calls>>

\* validateFile; next() runs the handler in the same turn
ValidateFile(reads) ==
    /\ pc = "uploaded"
    /\ UNCHANGED req
    /\ IF ~req.file.present
       THEN /\ pc' = "done"
            /\ res' = Json(400, ErrorBody(Msg("No file uploaded", {})))
            /\ UNCHANGED <<locals, files, calls>>
       ELSE IF req.file.mimetype = PdfType
       THEN /\ pc' = "awaitPdfCheck"
            /\ calls' = Append(calls, Invoked("isPdfTextBased"))
            /\ UNCHANGED <<locals, res, files>>
       ELSE HandlerEnter(calls, reads)

\* isPdfTextBased settles to a boolean whatever pdf-parse does; validateFile
\* only logs it and calls next()
PdfCheckDone(reads) ==
    /\ pc = "awaitPdfCheck"
    /\ UNCHANGED req
    /\ HandlerEnter(Append(calls, Settled("isPdfTextBased", TRUE, 0)), reads)

\* processPdf after pdfParse(dataBuffer).catch(...) settled
PdfParseDone ==
    /\ pc = "awaitPdfParse"
    /\ UNCHANGED req
    /\ \E o \in ExtractOutcomes :
         LET text == IF o.ok THEN o.text ELSE Text(0, 0, 0)
             cs == Append(calls, Settled("pdfParse", o.ok, ShownLen(o)))
         IN IF Usable(text)
            THEN GotText(text, locals, cs)
            ELSE /\ pc' = "awaitPdftotext"
                 /\ calls' = Append(cs, Invoked("pdftotext"))
                 /\ UNCHANGED <<locals, res, files>>

\* processPdf after pdf.getText() settled
PdftotextDone ==
    /\ pc = "awaitPdftotext"
    /\ UNCHANGED req
    /\ \E o \in ExtractOutcomes :
         LET cs == Append(calls, Settled("pdftotext", o.ok, ShownLen(o)))
         IN IF o.ok /\ Usable(o.text)
            THEN GotText(o.text, locals, cs)
            ELSE /\ pc' = "awaitOcr"
                 /\ calls' = Append(cs, Invoked("createWorker"))
                 /\ UNCHANGED <<locals, res, files>>

\* processPdf after the worker was created, loaded, run and terminated (or
\* one of these calls failed)
OcrDone ==
    /\ pc = "awaitOcr"
    /\ UNCHANGED req
    /\ \E o \in ExtractOutcomes :
         LET cs == Append(calls, Settled("createWorker", o.ok, ShownLen(o)))
         IN IF ~o.ok THEN Throw(o.err, locals, cs)
            ELSE IF Usable(o.text) THEN GotText(o.text, locals, cs)
            ELSE Throw(NoMethodMsg, locals, cs)

\* processDocx settled
DocxDone ==
    /\ pc = "awaitDocx"
    /\ UNCHANGED req
    /\ \E o \in ExtractOutcomes :
         LET cs == Append(calls, Settled("parseDocx", o.ok, ShownLen(o)))
         IN IF o.ok THEN GotText(o.text, locals, cs)
            ELSE Throw(Concat(Msg("DOCX processing failed: ", {}), o.err), locals, cs)

\* callGroq's fetch settled: the rest of the handler runs to its end
GroqDone(o) ==
    /\ pc = "awaitGroq"
    /\ UNCHANGED req
    /\ LET cs == Append(calls, Settled("fetch", ~CallGroqThrows(o), 0))
           lv == [locals EXCEPT !.reply = o]
       IN IF CallGroqThrows(o) THEN Throw(CallGroqError(o), lv, cs)
          ELSE IF ~o.parses
          THEN Throw(Msg("Failed to parse AI response as JSON", {"JSON", "parse"}), lv, cs)
          ELSE IF SanitizeThrows(o.value) THEN Throw(TypeErrorMsg, lv, cs)
          ELSE Finish(Json(200, SuccessBody(ResponseData(o.value), locals.resumeText)),
                      lv, cs)

(***************************************************************************)
(* What the LLM may reply.                                                 *)
(***************************************************************************)
FieldNames == {"overallScore", "categories", "strengths", "suggestions", "jobTitleMatch",
               "keywordAnalysis", "atsScore"}

\* a JSON object: a key whose value would be undefined is absent
MkObj(o) == Obj([k \in {x \in DOMAIN o : o[x].t # "undef"} |-> o[k]])

OverallVals == {Undef, Str("abc"), Num(-1), Num(0), Num(75), Num(101)}
AtsVals == {Null, Str("80"), Num(0), Num(101)}
TitleVals == {Undef, Str("Engineer")}
CategoryElems ==
    { Null, Str("x"), MkObj([name |-> Undef]) }
    \cup { MkObj([name |-> Str("Skills"), score |-> v]) :
             v \in {Str("abc"), Num(-1), Num(0), Num(7), Num(11)} }
KeywordElems ==
    { Null, MkObj([keyword |-> Undef]),
      MkObj([keyword |-> Str("sql"), importance |-> Str("urgent")]) }
    \cup { MkObj([keyword |-> Str("js"), count |-> v, importance |-> Str("high")]) :
             v \in {Str("abc"), Num(-1), Num(0), Num(3)} }
StringElems == {Str(""), Str("Leadership"), Num(7)}

\* an array field with k elements; with none it may also be absent
ArrayVals(S, k) ==
    IF k = 0 THEN {Undef, Arr(<<>>)} ELSE { Arr(a) : a \in [1 .. k -> S] }

\* how MaxItems elements may be spread over the four arrays
Spreads == { x \in (0 .. MaxItems) \X (0 .. MaxItems) \X (0 .. MaxItems) \X (0 .. MaxItems) :
               x[1] + x[2] + x[3] + x[4] <= MaxItems }

\* the reply object with the given fields
Reply(os, c, st, sg, jt, kw, as) ==
    MkObj([overallScore |-> os, categories |-> c, strengths |-> st, suggestions |-> sg,
           jobTitleMatch |-> jt, keywordAnalysis |-> kw, atsScore |-> as])

\* JSON values that are not objects
OtherReplies == {Null, Num(5), Str("hello"), Arr(<<>>), Arr(<<Num(1)>>)}

GoodReply ==
    Reply(Num(75), Arr(<<MkObj([name |-> Str("Skills"), score |-> Num(7)])>>),
          Arr(<<Str("Leadership")>>), Arr(<<Str("Leadership")>>), Str("Engineer"),
          Arr(<<>>), Num(80))

\* the outcomes of the LLM call that the whole-pipeline specification draws
FewOutcomes ==
    GroqFailures \cup {Unparsable, Parsed(Null), Parsed(GoodReply),
                       Parsed(MkObj([categories |-> Arr(<<Null>>)]))}

(***************************************************************************)
(* SpecFeedback: one request to POST /api/resume/feedback, any upload.     *)
(***************************************************************************)
FeedbackRequests ==
    { [route |-> FeedbackRoute, upload |-> [present |-> FALSE, mimetype |-> ""],
       file |-> NoFile] }
    \cup { [route |-> FeedbackRoute, upload |-> [present |-> TRUE, mimetype |-> m],
            file |-> NoFile] : m \in AllowedTypes \cup {"image/png"} }

\* readFileSync fails or returns the file's text
FileReads == { o \in ExtractOutcomes : o.ok => o.text.t = "text" }

InitFeedback ==
    /\ req \in FeedbackRequests
    /\ pc = "received"
    /\ locals = NoLocals
    /\ res = NoResponse
    /\ files = {}
    /\ calls = <<>>

LlmSettles == pc = "awaitGroq" /\ \E o \in FewOutcomes : GroqDone(o)

NextFeedback ==
    \/ Upload
    \/ ValidateFile(FileReads)
    \/ PdfCheckDone(FileReads)
    \/ PdfParseDone
    \/ PdftotextDone
    \/ OcrDone
    \/ DocxDone
    \/ LlmSettles

SpecFeedback == InitFeedback /\ [][NextFeedback]_vars

(***************************************************************************)
(* SpecSanitize: a readable text upload, and every reply of the LLM that   *)
(* parses as JSON.                                                         *)
(***************************************************************************)
InitSanitize ==
    /\ req = [route |-> FeedbackRoute, upload |-> [present |-> TRUE, mimetype |-> TxtType],
              file |-> NoFile]
    /\ pc = "received"
    /\ locals = NoLocals
    /\ res = NoResponse
    /\ files = {}
    /\ calls = <<>>

ReadableFile == { [ok |-> TRUE, err |-> NoErr, text |-> Text(0, PdfMinLen + 1, 0)] }

\* the LLM replies with content that parses to an object ...
LlmRepliesObject ==
    /\ pc = "awaitGroq"
    /\ \E x \in Spreads :
       \E os \in OverallVals, as \in AtsVals, jt \in TitleVals,
          c \in ArrayVals(CategoryElems, x[1]) \cup {Str("n/a")},
          kw \in ArrayVals(KeywordElems, x[2]),
          st \in ArrayVals(StringElems, x[3]),
          sg \in ArrayVals(StringElems, x[4]) :
            GroqDone(Parsed(Reply(os, c, st, sg, jt, kw, as)))

\* ... or to another JSON value
LlmRepliesOther == pc = "awaitGroq" /\ \E v \in OtherReplies : GroqDone(Parsed(v))

NextSanitize ==
    \/ Upload
    \/ ValidateFile(ReadableFile)
    \/ LlmRepliesObject
    \/ LlmRepliesOther

SpecSanitize == InitSanitize /\ [][NextSanitize]_vars

(***************************************************************************)
(* Claims about POST /api/resume/feedback.                                 *)
(***************************************************************************)
CallIdx == 1 .. Len(calls)
WasInvoked(i, fn) == calls[i].ev = "call" /\ calls[i].fn = fn
\* call i is fn settling without usable text: it failed, or its text has a
\* trimmed length of at most 50
SettledUnusable(i, fn) ==
    /\ calls[i].ev = "settle" /\ calls[i].fn = fn
    /\ (~calls[i].ok \/ calls[i].trimLen <= 50)
SettledUsable(i) ==
    /\ calls[i].ev = "settle" /\ calls[i].fn \in {"pdfParse", "pdftotext", "createWorker"}
    /\ calls[i].ok /\ calls[i].trimLen > 50
Extractors == {"pdfParse", "pdftotext", "createWorker"}
Invocations(fn) == Cardinality({i \in CallIdx : WasInvoked(i, fn)})

\* C1: processPdf tries pdf-parse, then pdftotextjs, then the OCR worker, in
\* this order and each at most once; pdftotextjs is invoked only after
\* pdf-parse failed or gave text of trimmed length <= 50, the OCR worker only
\* after both did, and no extractor is invoked after one gave usable text.
ExtractorOrder ==
    /\ \A fn \in Extractors : Invocations(fn) <= 1
    /\ \A i \in CallIdx :
         /\ WasInvoked(i, "pdftotext") =>
              \E j \in 1 .. i - 1 : SettledUnusable(j, "pdfParse")
         /\ WasInvoked(i, "createWorker") =>
              /\ \E j \in 1 .. i - 1 : SettledUnusable(j, "pdfParse")
              /\ \E j \in 1 .. i - 1 : SettledUnusable(j, "pdftotext")
         /\ SettledUsable(i) =>
              \A j \in i + 1 .. Len(calls) :
                 ~(calls[j].ev = "call" /\ calls[j].fn \in Extractors)

\* the OCR worker was created after pdf-parse answered 50 characters and
\* pdftotextjs failed
ExtractorOrderWitness ==
    \E i \in CallIdx :
       /\ WasInvoked(i, "createWorker")
       /\ \E j \in 1 .. i - 1 : calls[j] = Settled("pdfParse", TRUE, 50)
       /\ \E j \in 1 .. i - 1 : calls[j] = Settled("pdftotext", FALSE, 0)

IsPdfRequest == req.file.present /\ req.file.mimetype = PdfType

\* C2: what processPdf returns has a trimmed length above 50; when no extractor
\* gives such text it throws (the LLM is not called and the response is an
\* error), and for a PDF the handler's own "too short" check never fires.
PdfTextUsable ==
    IsPdfRequest =>
       /\ locals.resumeText.t = "text" => TrimLen(locals.resumeText) > 50
       /\ (\E i \in CallIdx : SettledUnusable(i, "createWorker")) =>
             /\ Invocations("fetch") = 0
             /\ res.sent = 1 /\ res.body.kind = "error"
       /\ locals.error # TooShortMsg

\* all three extractors answered, the last one 50 characters, and processPdf threw
PdfTextUsableWitness ==
    /\ IsPdfRequest /\ pc = "done"
    /\ \E i \in CallIdx : calls[i] = Settled("createWorker", TRUE, 50)
    /\ locals.error = NoMethodMsg

ParsedReply == pc = "done" /\ locals.reply.kind = "content" /\ locals.reply.parses
Succeeded == pc = "done" /\ res.sent = 1 /\ res.status = 200 /\ res.body.kind = "feedback"

\* C3: every reply whose content parses as JSON is answered with success:true
\* and a data object holding exactly the seven schema fields.
ParsedReplySucceeds ==
    ParsedReply => (Succeeded /\ res.body.success /\ DOMAIN res.body.data = FieldNames)

InRange(n, lo, hi) == lo <= n /\ n <= hi

\* C4: in a success response overallScore and atsScore are in 0..100, every
\* category score is in 0..10 and every keyword count is at least 0.
ScoresClamped ==
    Succeeded =>
       /\ InRange(res.body.data.overallScore, 0, 100)
       /\ InRange(res.body.data.atsScore, 0, 100)
       /\ \A i \in 1 .. Len(res.body.data.categories) :
             InRange(res.body.data.categories[i].score, 0, 10)
       /\ \A i \in 1 .. Len(res.body.data.keywordAnalysis) :
             res.body.data.keywordAnalysis[i].count >= 0

\* a success response to a reply with overallScore 101, atsScore "80", and a
\* category scored below 0 or above 10
ScoresClampedWitness ==
    /\ Succeeded
    /\ Prop(locals.reply.value, "overallScore") = Num(101)
    /\ res.body.data.overallScore = 100
    /\ IsArray(Prop(locals.reply.value, "categories"))
    /\ \E i \in 1 .. Len(Prop(locals.reply.value, "categories").a) :
          /\ Prop(locals.reply.value, "categories").a[i].t = "obj"
          /\ Prop(Prop(locals.reply.value, "categories").a[i], "score") \in {Num(-1), Num(11)}

\* the value a numeric field should keep: a number within lo..hi
Supplied(v, lo, hi) == v.t = "num" /\ InRange(v.n, lo, hi)

\* C5: a supplied overallScore or atsScore in 0..100, category score in 0..10
\* or keyword count >= 0 appears unchanged in the response (0 included), and
\* the defaults 50, 60 and 5 appear only for a field that is absent or not a
\* number.
ValidValuesKept ==
    Succeeded =>
       LET v == locals.reply.value
           d == res.body.data
           cats == Prop(v, "categories")
           kws == Prop(v, "keywordAnalysis")
       IN /\ Supplied(Prop(v, "overallScore"), 0, 100) =>
                d.overallScore = Prop(v, "overallScore").n
          /\ Supplied(Prop(v, "atsScore"), 0, 100) => d.atsScore = Prop(v, "atsScore").n
          /\ IsArray(cats) =>
                \A i \in 1 .. Len(cats.a) :
                   Supplied(Prop(cats.a[i], "score"), 0, 10) =>
                      d.categories[i].score = Prop(cats.a[i], "score").n
          /\ (IsArray(kws) /\ Len(d.keywordAnalysis) = Len(kws.a)) =>
                \A i \in 1 .. Len(kws.a) :
                   Supplied(Prop(kws.a[i], "count"), 0, 1000) =>
                      d.keywordAnalysis[i].count = Prop(kws.a[i], "count").n
          /\ (d.overallScore = 50 /\ Prop(v, "overallScore") # Num(50)) =>
                Prop(v, "overallScore").t # "num"
          /\ (d.atsScore = 60 /\ Prop(v, "atsScore") # Num(60)) =>
                Prop(v, "atsScore").t # "num"

HandlerReached == req.file.present /\ locals.filePath # ""
UnlinkFailed == \E i \in CallIdx : calls[i] = Settled("unlinkSync", FALSE, 0)

\* C6: once the handler has finished a request that reached it with an
\* uploaded file, the file at req.file.path is gone, unless unlinkSync failed.
TempFileRemoved ==
    (pc = "done" /\ HandlerReached /\ ~UnlinkFailed) => req.file.path \notin files

\* the handler finished after sanitization threw, and the upload is gone
TempFileRemovedWitness ==
    /\ pc = "done" /\ HandlerReached /\ ~UnlinkFailed
    /\ locals.error = TypeErrorMsg
    /\ req.file.path \notin files

FetchFailed == \E i \in CallIdx : calls[i] = Settled("fetch", FALSE, 0)

\* C7: a request makes at most one HTTP request to the LLM, and only with
\* extracted text of trimmed length >= 50; when that request fails, the
\* handler finishes with an error response and without a second request.
OneLlmCall ==
    /\ Invocations("fetch") <= 1
    /\ Invocations("fetch") = 1 =>
          (locals.resumeText.t = "text" /\ TrimLen(locals.resumeText) >= 50)
    /\ FetchFailed =>
          /\ pc = "done" /\ Invocations("fetch") = 1
          /\ res.sent = 1 /\ res.status >= 400 /\ res.body.kind = "error"

\* the LLM call failed on a text of exactly 50 characters and was answered 504
OneLlmCallWitness ==
    /\ FetchFailed /\ pc = "done" /\ res.status = 504
    /\ TrimLen(locals.resumeText) = 50

(***************************************************************************)
(* fetchJobs (utils/jobFetcher.js): one fetch-and-map call.                *)
(***************************************************************************)
\* data.jobs.slice(0, 10)
JobsCap == 10

\* the promise fetchJobs returned, settled
Resolved(v) == [sent |-> 1, status |-> 0, headers |-> {}, body |-> [kind |-> "resolved", value |-> v]]

\* the catch block: log, return []
JobsCaught(cs, lv) ==
    /\ res' = Resolved(<<>>)
    /\ pc' = "done"
    /\ calls' = cs
    /\ locals' = lv
    /\ UNCHANGED <<req, files>>

\* a.slice(0, n) without the cut
WholeArray(a, n) == a

\* a.slice(0, n)
Slice(a, n) == SubSeq(a, 1, Min(Len(a), n))

\* the callback of map: reading a property of job
SimplifyJob(job) ==
    [ title |-> Prop(job, "title"),
      company |-> Prop(job, "company_name"),
      location |-> JsOr(Prop(job, "candidate_required_location"), Str("Remote")),
      url |-> Prop(job, "url"),
      platform |-> Str("Remotive") ]

\* data.jobs.slice(0, 10).map(...) throws a TypeError when data or data.jobs is
\* null or undefined, when data.jobs has no slice or its slice has no map (it
\* is not an array), or when one of the jobs mapped is null
MapJobsThrows(data) ==
    \/ IsNullish(data)
    \/ ~IsArray(Prop(data, "jobs"))
    \/ \E i \in 1 .. Len(Slice(Prop(data, "jobs").a, JobsCap)) :
          IsNullish(Prop(data, "jobs").a[i])

MapJobs(data) == MapSeq(SimplifyJob, Slice(Prop(data, "jobs").a, JobsCap))

\* [jobTitle, ...skills]: skills defaults to [] when undefined, and must be iterable
SpreadThrows(skills) == skills.t \notin {"undef", "arr", "str"}

JobsLocals == [data |-> Undef]

\* fetchJobs from its call to its await of fetch(url)
FetchJobsCall ==
    /\ pc = "called"
    /\ IF SpreadThrows(req.skills)
       THEN JobsCaught(calls, locals)
       ELSE /\ pc' = "awaitFetch"
            /\ calls' = Append(calls, Invoked("fetch"))
            /\ UNCHANGED <<req, locals, res, files>>

\* fetch settled: it rejected, or answered with a status
JobsFetchDone ==
    /\ pc = "awaitFetch"
    /\ \E st \in {0, 200, 404, 500} :
         \* 0: no response, fetch rejected; response.ok is 200..299
         IF st \in 200 .. 299
         THEN /\ pc' = "awaitJson"
              /\ calls' = Append(calls, Settled("fetch", TRUE, 0))
              /\ UNCHANGED <<req, locals, res, files>>
         ELSE JobsCaught(Append(calls, Settled("fetch", FALSE, 0)), locals)

\* response.json() rejected (ok is FALSE) or resolved to data
JobsJsonDone(ok, data) ==
    /\ pc = "awaitJson"
    /\ LET cs == Append(calls, Settled("json", ok, 0))
           lv == [locals EXCEPT !.data = data]
       IN IF ~ok \/ MapJobsThrows(data)
          THEN JobsCaught(cs, lv)
          ELSE /\ res' = Resolved(MapJobs(data))
               /\ pc' = "done"
               /\ calls' = cs
               /\ locals' = lv
               /\ UNCHANGED <<req, files>>

\* The jobs the API may list: job i is complete, but for job p, which has no
\* location, or a blank one, or is null.
JobAt(i, w) ==
    CASE w = "null" -> Null
      [] w = "bare" -> MkObj([title |-> Str(ToString(i))])
      [] w = "blank" -> MkObj([title |-> Str(ToString(i)), company_name |-> Str("Acme"),
                               candidate_required_location |-> Str(""),
                               url |-> Str("https://remotive.com/j")])
      [] OTHER -> MkObj([title |-> Str(ToString(i)), company_name |-> Str("Acme"),
                         candidate_required_location |-> Str("USA"),
                         url |-> Str("https://remotive.com/j")])

JobLists ==
    { [i \in 1 .. n[1] |-> JobAt(i, IF i = n[2] THEN w ELSE "full")] :
        n \in { x \in (0 .. JobsCap + MaxExtraJobs) \X (0 .. JobsCap + MaxExtraJobs) :
                  x[2] <= x[1] },
        w \in {"null", "bare", "blank"} }

JobBodies ==
    { Null, MkObj([count |-> Num(0)]), MkObj([jobs |-> Str("none")]) }
    \cup { MkObj([jobs |-> Arr(l)]) : l \in JobLists }

JobsBodyRead ==
    \/ JobsJsonDone(FALSE, Undef)
    \/ \E d \in JobBodies : JobsJsonDone(TRUE, d)

InitJobs ==
    /\ req \in { [route |-> "fetchJobs", jobTitle |-> Str("developer"), skills |-> sk] :
                   sk \in {Undef, Null, Arr(<<>>), Arr(<<Str("js"), Str("sql")>>)} }
    /\ pc = "called"
    /\ locals = JobsLocals
    /\ res = NoResponse
    /\ files = {}
    /\ calls = <<>>

NextJobs == FetchJobsCall \/ JobsFetchDone \/ JobsBodyRead

SpecJobs == InitJobs /\ [][NextJobs]_vars

\* the call got a 2xx response whose body is JSON with a jobs array whose
\* first ten entries are job objects
JobsSucceeded ==
    /\ \E i \in CallIdx : calls[i] = Settled("json", TRUE, 0)
    /\ locals.data.t = "obj" /\ "jobs" \in DOMAIN locals.data.o
    /\ locals.data.o.jobs.t = "arr"
    /\ \A i \in 1 .. Len(locals.data.o.jobs.a) :
          i <= 10 => locals.data.o.jobs.a[i].t = "obj"

\* C8: fetchJobs makes one HTTP request at most and its promise always
\* resolves to an array: the empty one on any failure, else the first 10 jobs
\* of the reply in order, each with platform "Remotive" and location
\* defaulting to "Remote".
FetchJobsResolves ==
    /\ Invocations("fetch") <= 1
    /\ pc = "done" =>
         /\ res.body.kind = "resolved"
         /\ IF JobsSucceeded
            THEN LET jobs == locals.data.o.jobs.a
                     out == res.body.value
                 IN /\ Len(out) = Min(Len(jobs), 10)
                    /\ \A i \in 1 .. Len(out) :
                         /\ out[i].title = Prop(jobs[i], "title")
                         /\ out[i].company = Prop(jobs[i], "company_name")
                         /\ out[i].url = Prop(jobs[i], "url")
                         /\ out[i].platform = Str("Remotive")
                         /\ out[i].location =
                              IF Prop(jobs[i], "candidate_required_location")
                                   \in {Undef, Str("")}
                              THEN Str("Remote")
                              ELSE Prop(jobs[i], "candidate_required_location")
            ELSE res.body.value = <<>>

\* the API listed more than 10 jobs, one of the first ten without location
FetchJobsResolvesWitness ==
    /\ pc = "done" /\ JobsSucceeded
    /\ Len(locals.data.o.jobs.a) > 10
    /\ Len(res.body.value) = 10
    /\ \E i \in 1 .. 10 :
          /\ Prop(locals.data.o.jobs.a[i], "candidate_required_location") = Undef
          /\ res.body.value[i].location = Str("Remote")

(***************************************************************************)
(* The route table, and the document endpoints.                            *)
(***************************************************************************)
DocRoute == "POST /api/generate-doc"
PdfRoute == "POST /api/generate-pdf"

\* the app.post / app.get calls of server.js, in the order they are made
Routes ==
    << [route |-> FeedbackRoute, handler |-> "feedback"],
       [route |-> "POST /api/generate-analysis-pdf", handler |-> "generateAnalysisPdf"],
       [route |-> DocRoute, handler |-> "generateDocLibrary"],
       [route |-> DocRoute, handler |-> "generateDocHtml"],
       [route |-> PdfRoute, handler |-> "generatePdf"],
       [route |-> "POST /api/resume/generate", handler |-> "generate"],
       [route |-> "GET /health", handler |-> "health"] >>

\* FirstMatch with the last registration winning
LastMatch(route) ==
    Routes[CHOOSE i \in 1 .. Len(Routes) :
              /\ Routes[i].route = route
              /\ \A j \in i + 1 .. Len(Routes) : Routes[j].route # route].handler

\* Express runs the layers in registration order: the first handler that
\* matches gets the request, a later one only if that handler calls next()
\* (none of these handlers takes or calls next)
FirstMatch(route) ==
    Routes[CHOOSE i \in 1 .. Len(Routes) :
              /\ Routes[i].route = route
              /\ \A j \in 1 .. i - 1 : Routes[j].route # route].handler

\* the names server.js binds at module level (require, const)
ModuleBindings ==
    { "express", "cors", "fetch", "puppeteer", "multer", "pdfParse", "readFileSync",
      "existsSync", "mkdirSync", "unlinkSync", "docxParser", "createWorker", "pdftotext",
      "htmlToDocx", "app", "docx", "Document", "Paragraph", "TextRun", "HeadingLevel",
      "AlignmentType", "convertInchesToTwip", "callGroq", "createCleanHtmlForDocx" }

\* Names are sequences of characters.
Chars == {"J", "d", " ", "!"}
Names == UNION { [1 .. k -> Chars] : k \in 0 .. MaxName }

IsSpace(c) == c = " "
\* [a-zA-Z0-9\s]
IsWordOrSpace(c) == c \in {"J", "d", " "}
Lower(c) == IF c = "J" THEN "j" ELSE c

RECURSIVE DropSpaces(_)
DropSpaces(cs) ==
    IF cs # <<>> /\ IsSpace(Head(cs)) THEN DropSpaces(Tail(cs)) ELSE cs

\* .replace(/\s+/g, '-')
RECURSIVE Dashed(_)
Dashed(cs) ==
    IF cs = <<>> THEN <<>>
    ELSE IF IsSpace(Head(cs)) THEN <<"-">> \o Dashed(DropSpaces(cs))
    ELSE <<Head(cs)>> \o Dashed(Tail(cs))

\* name.replace(/[^a-zA-Z0-9\s]/g, '').replace(/\s+/g, '-').toLowerCase()
FileNameOf(cs) == MapSeq(Lower, Dashed(SelectSeq(cs, IsWordOrSpace)))

DefaultFileName == <<"r", "e", "s", "u", "m", "e">>

\* req.body.resumeData: absent, or an object with a name (empty: none) and
\* skills that are absent, a list, or (malformed) a string
ResumeDatas ==
    { [present |-> FALSE, name |-> <<>>, skills |-> "absent"] }
    \cup { [present |-> TRUE, name |-> n, skills |-> sk] :
             n \in Names, sk \in {"absent", "list", "string"} }

DocsLocals == [handler |-> "", finalFileName |-> DefaultFileName]

\* res.setHeader(...) for the type and the attachment, then res.send(buffer)
SendFile(type, name, ext) ==
    [ sent |-> 1, status |-> 200,
      headers |-> {type, "Content-Disposition: attachment"},
      body |-> [kind |-> "buffer", filename |-> name, ext |-> ext] ]

DocxMime == "Content-Type: application/vnd.openxmlformats-officedocument.wordprocessingml.document"
PdfMime == "Content-Type: application/pdf"

\* the first handler registered for POST /api/generate-doc, up to Packer.toBuffer
GenerateDocLibraryEnter(lv) ==
    IF ~req.resumeData.present
    THEN /\ res' = Json(400, ErrorBody(Msg("No resume data provided", {})))
         /\ pc' = "done"
         /\ locals' = lv
         /\ UNCHANGED calls
    ELSE LET name == IF req.resumeData.name # <<>> THEN FileNameOf(req.resumeData.name)
                     ELSE DefaultFileName
         IN IF req.resumeData.skills = "string"
            \* skills.join is not a function
            THEN /\ res' = Json(500, ErrorBody(Concat(Msg("Failed to generate DOC: ", {}),
                                                      Msg("skills.join is not a function", {}))))
                 /\ pc' = "done"
                 /\ locals' = [lv EXCEPT !.finalFileName = name]
                 /\ UNCHANGED calls
            ELSE /\ pc' = "awaitPacker"
                 /\ locals' = [lv EXCEPT !.finalFileName = name]
                 /\ calls' = Append(calls, Invoked("Packer.toBuffer"))
                 /\ UNCHANGED res

\* the second handler registered for POST /api/generate-doc, up to htmlToDocx
GenerateDocHtmlEnter(lv) ==
    LET name == IF req.resumeData.present /\ req.resumeData.name # <<>>
                THEN FileNameOf(req.resumeData.name) ELSE DefaultFileName
    IN IF ~req.resumeData.present \/ req.resumeData.skills = "string"
       \* createCleanHtmlForDocx destructures undefined, or skills.map is not a function
       THEN /\ res' = Json(500, ErrorBody(Msg("Failed to generate DOC", {})))
            /\ pc' = "done"
            /\ locals' = [lv EXCEPT !.finalFileName = name]
            /\ UNCHANGED calls
       ELSE /\ pc' = "awaitHtmlToDocx"
            /\ locals' = [lv EXCEPT !.finalFileName = name]
            /\ calls' = Append(calls, Invoked("htmlToDocx"))
            /\ UNCHANGED res

\* POST /api/generate-pdf up to its first await: the argument of
\* puppeteer.launch reads chromium, which must be bound
GeneratePdfEnter(lv) ==
    LET name == IF req.resumeData.present /\ req.resumeData.name # <<>>
                THEN FileNameOf(req.resumeData.name)
                ELSE IF req.fileName # <<>> THEN FileNameOf(req.fileName)
                ELSE DefaultFileName
    IN IF "chromium" \notin ModuleBindings
       \* ReferenceError: chromium is not defined
       THEN /\ res' = Json(500, ErrorBody(Msg("Failed to generate PDF", {})))
            /\ pc' = "done"
            /\ locals' = [lv EXCEPT !.finalFileName = name]
            /\ UNCHANGED calls
       ELSE /\ pc' = "awaitExecutablePath"
            /\ locals' = [lv EXCEPT !.finalFileName = name]
            /\ calls' = Append(calls, Invoked("chromium.executablePath"))
            /\ UNCHANGED res

\* the router hands the request to the first matching handler
Dispatch ==
    /\ pc = "received"
    /\ req.route \in {DocRoute, PdfRoute}
    /\ LET h == FirstMatch(req.route)
           lv == [locals EXCEPT !.handler = h]
       IN CASE h = "generateDocLibrary" -> GenerateDocLibraryEnter(lv)
            [] h = "generateDocHtml" -> GenerateDocHtmlEnter(lv)
            [] h = "generatePdf" -> GeneratePdfEnter(lv)
    /\ UNCHANGED <<req, files>>

\* docx.Packer.toBuffer(doc) settled
PackerDone ==
    /\ pc = "awaitPacker"
    /\ \E ok \in BOOLEAN :
         /\ calls' = Append(calls, Settled("Packer.toBuffer", ok, 0))
         /\ res' = IF ok THEN SendFile(DocxMime, locals.finalFileName, ".docx")
                   ELSE Json(500, ErrorBody(Concat(Msg("Failed to generate DOC: ", {}),
                                                   Msg("packer failed", {}))))
    /\ pc' = "done"
    /\ UNCHANGED <<req, locals, files>>

\* htmlToDocx(cleanHtml, ...) settled
HtmlToDocxDone ==
    /\ pc = "awaitHtmlToDocx"
    /\ \E ok \in BOOLEAN :
         /\ calls' = Append(calls, Settled("htmlToDocx", ok, 0))
         /\ res' = IF ok THEN SendFile(DocxMime, locals.finalFileName, ".docx")
                   ELSE Json(500, ErrorBody(Msg("Failed to generate DOC", {})))
    /\ pc' = "done"
    /\ UNCHANGED <<req, locals, files>>

\* chromium.executablePath() settled; puppeteer.launch is called
ExecutablePathDone ==
    /\ pc = "awaitExecutablePath"
    /\ \E ok \in BOOLEAN :
         IF ok
         THEN /\ calls' = Append(Append(calls, Settled("chromium.executablePath", TRUE, 0)),
                                 Invoked("puppeteer.launch"))
              /\ pc' = "awaitPuppeteer"
              /\ UNCHANGED res
         ELSE /\ calls' = Append(calls, Settled("chromium.executablePath", FALSE, 0))
              /\ res' = Json(500, ErrorBody(Msg("Failed to generate PDF", {})))
              /\ pc' = "done"
    /\ UNCHANGED <<req, locals, files>>

\* launch, newPage, setViewport, setContent, evaluateHandle, page.pdf and
\* browser.close settled: all succeeded, or one failed
PuppeteerDone ==
    /\ pc = "awaitPuppeteer"
    /\ \E ok \in BOOLEAN :
         /\ calls' = Append(calls, Settled("puppeteer.launch", ok, 0))
         /\ res' = IF ok THEN SendFile(PdfMime, locals.finalFileName, ".pdf")
                   ELSE Json(500, ErrorBody(Msg("Failed to generate PDF", {})))
    /\ pc' = "done"
    /\ UNCHANGED <<req, locals, files>>

DocsRequests ==
    { [route |-> DocRoute, html |-> FALSE, fileName |-> <<>>, resumeData |-> rd] :
        rd \in ResumeDatas }
    \cup { [route |-> PdfRoute, html |-> h, fileName |-> fn, resumeData |-> rd] :
             h \in BOOLEAN, fn \in Names,
             rd \in { x \in ResumeDatas : x.skills = "absent" } }

InitDocs ==
    /\ req \in DocsRequests
    /\ pc = "received"
    /\ locals = DocsLocals
    /\ res = NoResponse
    /\ files = {}
    /\ calls = <<>>

\* HtmlToDocxDone, ExecutablePathDone and PuppeteerDone are never enabled:
\* no request reaches the await they resume from.
NextDocs == Dispatch \/ PackerDone

SpecDocs == InitDocs /\ [][NextDocs]_vars

ThirdPartyFailed == \E i \in CallIdx : calls[i].ev = "settle" /\ ~calls[i].ok

\* C9: a POST /api/generate-pdf request with html reaches the browser launch;
\* when no third-party call fails it is answered with the PDF buffer, with
\* Content-Type application/pdf and an attachment Content-Disposition, and
\* it is answered 500 only when a third-party call failed.
PdfRequestRendered ==
    (pc = "done" /\ req.route = PdfRoute /\ req.html) =>
       /\ Invocations("puppeteer.launch") = 1
       /\ res.status = 500 => ThirdPartyFailed
       /\ ~ThirdPartyFailed =>
             /\ res.status = 200 /\ res.body.kind = "buffer"
             /\ {PdfMime, "Content-Disposition: attachment"} \subseteq res.headers

\* C10: a POST /api/generate-doc request is answered by the handler that
\* builds the document from createCleanHtmlForDocx via html-to-docx.
DocServedByHtmlHandler ==
    (pc = "done" /\ req.route = DocRoute) =>
       /\ locals.handler = "generateDocHtml"
       /\ res.body.kind = "buffer" => Invocations("htmlToDocx") = 1


\* C11: a POST /api/generate-doc request without resumeData is answered once,
\* with status 400 and the error "No resume data provided", and no document
\* generation is attempted.
NoResumeDataRefused ==
    (req.route = DocRoute /\ ~req.resumeData.present) =>
       /\ res.sent <= 1
       /\ \A i \in CallIdx : calls[i].fn \notin {"Packer.toBuffer", "htmlToDocx"}
       /\ pc \in {"received", "done"}
       /\ pc = "done" =>
            /\ res.sent = 1 /\ res.status = 400
            /\ res.body.kind = "error" /\ res.body.error = <<"No resume data provided">>

\* such a request was answered
NoResumeDataRefusedWitness ==
    /\ req.route = DocRoute /\ ~req.resumeData.present
    /\ pc = "done" /\ res.status = 400

\* C12: in every success response of POST /api/resume/feedback strengths and
\* suggestions are non-empty arrays of non-empty strings.
ListsNonEmpty ==
    Succeeded =>
       /\ Len(res.body.data.strengths) > 0
       /\ Len(res.body.data.suggestions) > 0
       /\ \A i \in 1 .. Len(res.body.data.strengths) : res.body.data.strengths[i] # ""
       /\ \A i \in 1 .. Len(res.body.data.suggestions) : res.body.data.suggestions[i] # ""

\* the LLM's strengths held only an empty string, its suggestions were
\* absent, and both were replaced by fixed lists
ListsNonEmptyWitness ==
    /\ Succeeded
    /\ Prop(locals.reply.value, "strengths") = Arr(<<Str("")>>)
    /\ Prop(locals.reply.value, "suggestions") = Undef
    /\ res.body.data.strengths = StrengthsIfEmpty
    /\ res.body.data.suggestions = SuggestionsNoArray


\* the handler finished without having obtained sufficient text
InsufficientText == pc = "done" /\ HandlerReached /\ locals.resumeText = Undef

ExtractionRefusal ==
    <<"Could not extract sufficient text from the resume. Please ensure the file is readable and try again.">>

\* C13: whenever sufficient text cannot be obtained from the upload (all
\* three PDF extractors fail, a DOCX or TXT cannot be read, or the text has a
\* trimmed length below 50), the response is 400 with the "Could not extract
\* sufficient text" message and the LLM is not called.
InsufficientTextIs400 ==
    InsufficientText =>
       /\ res.status = 400
       /\ res.body.kind = "error" /\ res.body.error = ExtractionRefusal
       /\ Invocations("fetch") = 0

\* the LLM call failed because the request timed out
LlmTimedOut == locals.reply.kind = "reject" /\ "timeout" \in locals.reply.err.has

\* C14: a failed LLM call is reported as 504 when it is a timeout and as 500
\* otherwise, never as 400, whatever the upstream error says; 400 is returned
\* only when text extraction failed.
StatusReflectsCause ==
    (pc = "done" /\ HandlerReached) =>
       /\ FetchFailed => res.status = (IF LlmTimedOut THEN 504 ELSE 500)
       /\ res.status = 400 => InsufficientText

(***************************************************************************)
(* POST /api/resume/generate.                                              *)
(***************************************************************************)
GenerateRoute == "POST /api/resume/generate"

\* { error: ... }: the bodies of this handler carry no success field
GenerateErrorBody(m) == [kind |-> "error", error |-> m.parts]
\* res.json(parsed)
GenerateBody(v) == [kind |-> "data", value |-> v]

CareerDetailsMsg == Msg("Please provide your career details.", {})
TrimTypeErrorMsg == Msg("prompt.trim is not a function", {})
InvalidJsonMsg == Concat(Msg("Invalid JSON returned by Groq: ", {}), Msg("<content>", {}))

\* !prompt
PromptFalsy(v) == IF v.t = "text" THEN ~TextTruthy(v) ELSE ~Truthy(v)
\* prompt.trim() of a truthy prompt throws unless the prompt is a string
TrimThrows(v) == v.t # "text"

GenerateLocals == [reply |-> GroqOutcome("none", 0, NoErr, FALSE, Undef)]

\* the handler up to its first await: the prompt check, then callGroq
GenerateEnter ==
    /\ pc = "received"
    /\ req.route = GenerateRoute
    /\ FirstMatch(req.route) = "generate"
    /\ IF PromptFalsy(req.prompt)
       THEN /\ res' = Json(400, GenerateErrorBody(CareerDetailsMsg))
            /\ pc' = "done"
            /\ UNCHANGED calls
       ELSE IF TrimThrows(req.prompt)
       THEN /\ res' = Json(500, GenerateErrorBody(TrimTypeErrorMsg))
            /\ pc' = "done"
            /\ UNCHANGED calls
       ELSE IF TrimLen(req.prompt) = 0
       THEN /\ res' = Json(400, GenerateErrorBody(CareerDetailsMsg))
            /\ pc' = "done"
            /\ UNCHANGED calls
       ELSE /\ calls' = Append(calls, Invoked("fetch"))
            /\ pc' = "awaitGroqGenerate"
            /\ UNCHANGED res
    /\ UNCHANGED <<req, locals, files>>

\* callGroq settled with outcome o: JSON.parse of the content, res.json, or
\* the catch
GenerateGroqDone(o) ==
    /\ pc = "awaitGroqGenerate"
    /\ calls' = Append(calls, Settled("fetch", ~CallGroqThrows(o), 0))
    /\ locals' = [locals EXCEPT !.reply = o]
    /\ res' = IF CallGroqThrows(o) THEN Json(500, GenerateErrorBody(CallGroqError(o)))
              ELSE IF ~o.parses THEN Json(500, GenerateErrorBody(InvalidJsonMsg))
              ELSE Json(200, GenerateBody(o.value))
    /\ pc' = "done"
    /\ UNCHANGED <<req, files>>

\* req.body.prompt: absent, null, a number, an array, or a string
Prompts == Texts \cup {Undef, Null, Num(5), Arr(<<>>)}

GenerateOutcomes ==
    GroqFailures \cup {Unparsable, Parsed(GoodReply)} \cup { Parsed(v) : v \in OtherReplies }

InitGenerate ==
    /\ req \in { [route |-> GenerateRoute, prompt |-> v] : v \in Prompts }
    /\ pc = "received"
    /\ locals = GenerateLocals
    /\ res = NoResponse
    /\ files = {}
    /\ calls = <<>>

GenerateLlmSettles == pc = "awaitGroqGenerate" /\ \E o \in GenerateOutcomes : GenerateGroqDone(o)

NextGenerate == GenerateEnter \/ GenerateLlmSettles

SpecGenerate == InitGenerate /\ [][NextGenerate]_vars

\* the prompt is missing, empty or made of blanks only
Blank(v) == v \in {Undef, Null} \/ (v.t = "text" /\ TrimLen(v) = 0)

\* C15: POST /api/resume/generate answers a missing, empty or blank prompt
\* with 400 and never calls the LLM; any other prompt makes it call the LLM
\* exactly once and answer with the parsed JSON reply unchanged, or with 500
\* when the call fails or the reply is not valid JSON.
PromptHandled ==
    /\ Invocations("fetch") <= 1
    /\ Blank(req.prompt) => Invocations("fetch") = 0
    /\ pc = "done" =>
         IF Blank(req.prompt)
         THEN res.sent = 1 /\ res.status = 400
         ELSE /\ Invocations("fetch") = 1
              /\ res.sent = 1
              /\ IF locals.reply.kind = "content" /\ locals.reply.parses
                 THEN res.status = 200 /\ res.body = GenerateBody(locals.reply.value)
                 ELSE res.status = 500

====
